---- MODULE Spec2Model ----
(***************************************************************************)
(* A model of napari/utils/colormaps/colormap_utils.py:                    *)
(*   - the colormap registry AVAILABLE_COLORMAPS, its lock and             *)
(*     ensure_colormap, called from several threads (Spec);                *)
(*   - the colour sampler _color_random and label_colormap (SamplerSpec,   *)
(*     FairSamplerSpec);                                                   *)
(*   - color_dict_to_colormap (ColorDictSpec).                             *)
(***************************************************************************)
EXTENDS Integers, Sequences, FiniteSets, TLC

VARIABLES
    AVAILABLE_COLORMAPS,        \* the registry: a dict, kept as its items in iteration order
    AVAILABLE_COLORMAPS_LOCK,   \* 0 when free, else the thread holding it
    cmapName,                   \* the mutable `name` field of each caller-owned Colormap object
    th,                         \* per thread: position in ensure_colormap, argument, name, result
    ncalls,                     \* calls of ensure_colormap started so far
    sp,                         \* the state of one _color_random / label_colormap call
    cd                          \* the state of one color_dict_to_colormap call

regVars == <<AVAILABLE_COLORMAPS, AVAILABLE_COLORMAPS_LOCK, cmapName, th, ncalls>>
vars == <<AVAILABLE_COLORMAPS, AVAILABLE_COLORMAPS_LOCK, cmapName, th, ncalls, sp, cd>>

-----------------------------------------------------------------------------
(* Bounds of the model.                                                    *)

\* calls of ensure_colormap in one behaviour
MaxCalls == 3
\* the threads calling ensure_colormap
Threads == {1, 2}

-----------------------------------------------------------------------------
(* Names.  A name is a string, kept as the sequence of the pieces it is    *)
(* written from, so that startswith and the f-string of                    *)
(* increment_unnamed_colormap are computed rather than looked up.          *)

\* the text every auto-generated name starts with: '[unnamed colormap'
UnnamedPrefix == "[unnamed colormap"

\* the default base name '[unnamed colormap]'
UnnamedBase == <<UnnamedPrefix, "]">>

DecimalDigits == <<"0", "1", "2", "3", "4", "5", "6", "7", "8", "9">>

\* str(k) of a non-negative int, digit by digit
RECURSIVE IntToStr(_)
IntToStr(k) ==
    IF k < 10 THEN <<DecimalDigits[k + 1]>>
    ELSE IntToStr(k \div 10) \o <<DecimalDigits[(k % 10) + 1]>>

\* f'[unnamed colormap {k}]'
UnnamedName(k) == <<UnnamedPrefix, " ">> \o IntToStr(k) \o <<"]">>

\* n.startswith('[unnamed colormap')
StartsWithUnnamed(n) == Len(n) >= 1 /\ n[1] = UnnamedPrefix

NoName == <<>>

-----------------------------------------------------------------------------
(* Colormap values.  A vispy colormap has colors and may or may not have   *)
(* _controls and interpolation attributes ("absent").  A napari Colormap   *)
(* has name, colors, controls, interpolation.  ref > 0 marks a Colormap    *)
(* object owned by a caller (its name is read from cmapName, since the     *)
(* registry stores the object itself); ref = 0 is an object the module     *)
(* built.                                                                  *)

Vispy(colors, controls, interpolation) ==
    [colors |-> colors, controls |-> controls, interpolation |-> interpolation]

Built(name, colors, controls, interpolation) ==
    [ref |-> 0, name |-> name, colors |-> colors, controls |-> controls,
     interpolation |-> interpolation]

\* Colormap(...) of colormap.py: validates and stores its fields
Colormap(name, colors, controls, interpolation) ==
    Built(name, colors, controls, interpolation)

convert_vispy_colormap(colormap, name) ==
    LET controls == IF colormap.controls = "absent" THEN "empty"
                    ELSE colormap.controls
        interpolation == IF colormap.interpolation = "absent" THEN "linear"
                         ELSE colormap.interpolation
    IN  Colormap(name, colormap.colors, controls, interpolation)

\* the caller-owned Colormap objects and their (immutable) tables
ObjIds == {1, 2}
ObjColors(i) == IF i = 1 THEN "cA" ELSE "cB"
ObjVal(i) == [ref |-> i, name |-> NoName, colors |-> ObjColors(i),
              controls |-> "empty", interpolation |-> "linear"]

\* the `name` field of a stored Colormap
NameOf(val, heap) == IF val.ref = 0 THEN val.name ELSE heap[val.ref]

\* `colormap == val` of a vispy colormap and a registered Colormap:
\* structural equality of the colour tables
VispyEq(colormap, val) ==
    LET c == convert_vispy_colormap(colormap, NoName)
    IN  /\ c.colors = val.colors
        /\ c.controls = val.controls
        /\ c.interpolation = val.interpolation

-----------------------------------------------------------------------------
(* The registry as a dict: items in iteration order.                       *)

Item(key, val) == [key |-> key, val |-> val]

Keys(d) == {d[k].key : k \in 1..Len(d)}

HasKey(d, key) == \E k \in 1..Len(d) : d[k].key = key

IndexOf(d, key) == CHOOSE k \in 1..Len(d) : d[k].key = key

\* d[key]
Lookup(d, key) == d[IndexOf(d, key)].val

\* d[key] = val: an existing key keeps its place, a new key goes last
Put(d, key, val) ==
    IF HasKey(d, key)
    THEN [d EXCEPT ![IndexOf(d, key)] = Item(key, val)]
    ELSE Append(d, Item(key, val))

\* d.update(items)
RECURSIVE Update(_, _)
Update(d, items) ==
    IF items = <<>> THEN d
    ELSE Update(Put(d, Head(items).key, Head(items).val), Tail(items))

\* names the external catalogues of vispy and matplotlib resolve
Catalog == {<<"gray">>, <<"hsv">>}

\* the colormap the catalogue holds under a name (its table is named after it)
vispy_or_mpl_colormap(name) == Colormap(name, name[1], "empty", "linear")

\* ALL_COLORMAPS sorted by name
InitialColormaps ==
    << Item(<<"gray">>, vispy_or_mpl_colormap(<<"gray">>)),
       Item(<<"red">>, Colormap(<<"red">>, "cRed", "empty", "linear")) >>

-----------------------------------------------------------------------------
(* increment_unnamed_colormap(existing, name)                              *)

increment_unnamed_colormap(existing, name) ==
    IF name = UnnamedBase
    THEN LET past_names == {k \in 1..Len(existing) : StartsWithUnnamed(existing[k].key)}
         IN  UnnamedName(Cardinality(past_names))
    ELSE name

-----------------------------------------------------------------------------
(* The arguments of ensure_colormap.  An element of a tuple or a value of  *)
(* a dict is a str, a Colormap object, a vispy colormap or other data.     *)

StrEl(s) == [t |-> "str", s |-> s]
CmapEl(i) == [t |-> "Colormap", id |-> i]
VispyEl(v) == [t |-> "Vispy", v |-> v]
DataEl(ok) == [t |-> "data", ok |-> ok]

\* isinstance(x, VispyColormap) or isinstance(x, Colormap)
IsColormapEl(x) == x.t \in {"Colormap", "Vispy"}

StrArg(name) == [shape |-> "str", name |-> name]
CmapArg(i) == [shape |-> "Colormap", id |-> i]
VispyArg(v) == [shape |-> "Vispy", v |-> v]
TupleArg(items) == [shape |-> "tuple", items |-> items]
DictArg(items) == [shape |-> "dict", items |-> items]
OtherArg == [shape |-> "other"]

\* what the locked part of ensure_colormap leaves: the registry, the name
\* fields of the callers' objects, the exception raised ("none" if none) and
\* the local `name`
Res(reg, heap, exc, name) == [reg |-> reg, heap |-> heap, exc |-> exc, name |-> name]

\* lines 413-419
ensure_str(reg, heap, name) ==
    IF HasKey(reg, name) THEN Res(reg, heap, "none", name)
    ELSE IF name \in Catalog
         THEN Res(Put(reg, name, vispy_or_mpl_colormap(name)), heap, "none", name)
         ELSE Res(reg, heap, "KeyError", NoName)

\* lines 420-422
ensure_Colormap(reg, heap, i) ==
    Res(Put(reg, heap[i], ObjVal(i)), heap, "none", heap[i])

\* lines 426-430: the key of the first registered value equal to colormap
FirstEqual(reg, colormap) ==
    LET hits == {k \in 1..Len(reg) : VispyEq(colormap, reg[k].val)}
    IN  IF hits = {} THEN NoName
        ELSE reg[CHOOSE k \in hits : \A j \in hits : k <= j].key

\* lines 423-435
ensure_Vispy(reg, heap, colormap) ==
    LET found == FirstEqual(reg, colormap)
        name == IF found = NoName
                THEN increment_unnamed_colormap(reg, UnnamedBase)
                ELSE found
        cmap == convert_vispy_colormap(colormap, name)
    IN  Res(Put(reg, name, cmap), heap, "none", name)

\* lines 437-456
ensure_tuple(reg, heap, items) ==
    IF ~(/\ Len(items) = 2
         /\ IsColormapEl(items[2])
         /\ items[1].t = "str")
    THEN Res(reg, heap, "TypeError", NoName)
    ELSE LET name == items[1].s
             cmap == items[2]
         IN  IF cmap.t = "Vispy"
             THEN Res(Put(reg, name, convert_vispy_colormap(cmap.v, name)),
                      heap, "none", name)
             ELSE LET heap2 == [heap EXCEPT ![cmap.id] = name]
                  IN  Res(Put(reg, name, ObjVal(cmap.id)), heap2, "none", name)

\* key in colormap, colormap[key] of a dict argument
DictHas(items, key) == \E k \in 1..Len(items) : items[k].key = key
DictGet(items, key) == items[CHOOSE k \in 1..Len(items) : items[k].key = key].val

\* Colormap(**colormap) of colormap.py: the constructor rejects colors it
\* cannot validate ("rejected"), else builds a Colormap of the given name
KwargsAccepted(items) == DictGet(items, <<"colors">>).ok
ColormapFromKwargs(items) ==
    Colormap(DictGet(items, <<"name">>).s, "cData", "empty", "linear")

\* lines 476-483, the name fields after the loop: every Colormap value is
\* renamed to its key, in iteration order
RECURSIVE RenameAll(_, _)
RenameAll(heap, items) ==
    IF items = <<>> THEN heap
    ELSE LET key == Head(items).key
             cmap == Head(items).val
             heap2 == IF cmap.t = "Vispy" THEN heap
                      ELSE [heap EXCEPT ![cmap.id] = key]
         IN  RenameAll(heap2, Tail(items))

\* lines 476-483, the dict after the loop: every value in canonical form
ConvertAll(items) ==
    [k \in 1..Len(items) |->
        Item(items[k].key,
             IF items[k].val.t = "Vispy"
             THEN convert_vispy_colormap(items[k].val.v, items[k].key)
             ELSE ObjVal(items[k].val.id))]

\* ensure_dict with the type check made inside the loop: the entries before
\* the first non-colormap value are registered before TypeError is raised
ensure_dict_checking_late(reg, heap, items) ==
    IF DictHas(items, <<"colors">>) /\ ~IsColormapEl(DictGet(items, <<"colors">>))
    THEN IF ~KwargsAccepted(items) THEN Res(reg, heap, "ValidationError", NoName)
         ELSE LET cmap == ColormapFromKwargs(items)
              IN  Res(Put(reg, cmap.name, cmap), heap, "none", cmap.name)
    ELSE LET bad == {k \in 1..Len(items) : ~IsColormapEl(items[k].val)}
             good == IF bad = {} THEN items
                     ELSE SubSeq(items, 1, (CHOOSE k \in bad : \A j \in bad : k <= j) - 1)
             heap2 == RenameAll(heap, good)
             reg2 == Update(reg, ConvertAll(good))
         IN  IF bad # {} THEN Res(reg2, heap2, "TypeError", NoName)
             ELSE IF Len(items) >= 1
             THEN Res(reg2, heap2, "none", items[1].key)
             ELSE Res(reg2, heap2, "ValueError", NoName)

\* lines 458-497
ensure_dict(reg, heap, items) ==
    IF DictHas(items, <<"colors">>) /\ ~IsColormapEl(DictGet(items, <<"colors">>))
    THEN IF ~KwargsAccepted(items) THEN Res(reg, heap, "ValidationError", NoName)
         ELSE LET cmap == ColormapFromKwargs(items)
              IN  Res(Put(reg, cmap.name, cmap), heap, "none", cmap.name)
    ELSE IF ~(\A k \in 1..Len(items) : IsColormapEl(items[k].val))
    THEN Res(reg, heap, "TypeError", NoName)
    ELSE LET heap2 == RenameAll(heap, items)
             reg2 == Update(reg, ConvertAll(items))
         IN  IF Len(items) >= 1
             THEN Res(reg2, heap2, "none", items[1].key)
             ELSE Res(reg2, heap2, "ValueError", NoName)

\* lines 412-503: the part of ensure_colormap run under the lock
ensure_colormap_locked(reg, heap, arg) ==
    CASE arg.shape = "str" -> ensure_str(reg, heap, arg.name)
      [] arg.shape = "Colormap" -> ensure_Colormap(reg, heap, arg.id)
      [] arg.shape = "Vispy" -> ensure_Vispy(reg, heap, arg.v)
      [] arg.shape = "tuple" -> ensure_tuple(reg, heap, arg.items)
      [] arg.shape = "dict" -> ensure_dict(reg, heap, arg.items)
      [] OTHER -> Res(reg, heap, "TypeError", NoName)

-----------------------------------------------------------------------------
(* The arguments the threads call ensure_colormap with.                    *)

Gray == <<"gray">>
Mine == <<"mine">>

\* V1 has the table of caller object 1; V2 equals nothing else
V1 == Vispy("cA", "absent", "absent")
V2 == Vispy("cC", "k1", "zero")

StrArgs == {StrArg(<<"red">>), StrArg(<<"hsv">>), StrArg(<<"nope">>)}
CmapArgs == {CmapArg(i) : i \in ObjIds}
VispyArgs == {VispyArg(V1), VispyArg(V2)}

PairNames == {Gray, UnnamedName(1)}
PairValues == {CmapEl(1), VispyEl(V1)}
GoodTuples == {TupleArg(<<StrEl(n), x>>) : n \in PairNames, x \in PairValues}
BadTuples ==
    { TupleArg(<<StrEl(Gray)>>),
      TupleArg(<<DataEl(TRUE), CmapEl(1)>>),
      TupleArg(<<StrEl(Gray), DataEl(TRUE)>>) }

DictKeys == {Gray, Mine}
DictValues == {CmapEl(1), VispyEl(V2)}
OneEntryDicts == {DictArg(<<Item(k, x)>>) : k \in DictKeys, x \in DictValues}
TwoEntryDicts ==
    {DictArg(<<Item(ks[1], x1), Item(ks[2], x2)>>) :
        ks \in {p \in DictKeys \X DictKeys : p[1] # p[2]},
        x1 \in DictValues, x2 \in DictValues}
KwargsDicts ==
    {DictArg(<<Item(<<"colors">>, DataEl(ok)), Item(<<"name">>, StrEl(Mine))>>) :
        ok \in BOOLEAN}
BadDicts ==
    { DictArg(<<>>),
      DictArg(<<Item(Gray, CmapEl(1)), Item(Mine, DataEl(TRUE))>>) }

Args ==
    StrArgs \cup CmapArgs \cup VispyArgs \cup GoodTuples \cup BadTuples
    \cup OneEntryDicts \cup TwoEntryDicts \cup KwargsDicts \cup BadDicts
    \cup {OtherArg}

-----------------------------------------------------------------------------
(* ensure_colormap in a thread: take the lock, run the locked part (the    *)
(* lock is released on leaving the with block, also by an exception),      *)
(* then, outside the lock, return AVAILABLE_COLORMAPS[name] (line 505).    *)

NoArg == [shape |-> "none"]
NoValue == [ref |-> 0, name |-> NoName, colors |-> "none", controls |-> "none",
            interpolation |-> "none"]

\* unequal records whether a vispy argument equalled no registered value when
\* the locked part ran (lines 427-431 found no key)
Idle == [pc |-> "idle", arg |-> NoArg, exc |-> "none", name |-> NoName,
         unequal |-> FALSE, result |-> NoValue]

\* line 412: with AVAILABLE_COLORMAPS_LOCK
Acquire(t, arg) ==
    /\ th[t].pc = "idle"
    /\ ncalls < MaxCalls
    /\ AVAILABLE_COLORMAPS_LOCK = 0
    /\ AVAILABLE_COLORMAPS_LOCK' = t
    /\ th' = [th EXCEPT ![t] = [Idle EXCEPT !.pc = "locked", !.arg = arg]]
    /\ ncalls' = ncalls + 1
    /\ UNCHANGED <<AVAILABLE_COLORMAPS, cmapName, sp, cd>>

\* lines 413-503
Locked(t) ==
    /\ th[t].pc = "locked"
    /\ LET r == ensure_colormap_locked(AVAILABLE_COLORMAPS, cmapName, th[t].arg)
       IN  /\ AVAILABLE_COLORMAPS' = r.reg
           /\ cmapName' = r.heap
           /\ th' = [th EXCEPT ![t].pc = IF r.exc = "none" THEN "return" ELSE "idle",
                               ![t].exc = r.exc,
                               ![t].name = r.name,
                               ![t].unequal =
                                   /\ th[t].arg.shape = "Vispy"
                                   /\ FirstEqual(AVAILABLE_COLORMAPS, th[t].arg.v) = NoName]
    /\ AVAILABLE_COLORMAPS_LOCK' = 0
    /\ UNCHANGED <<ncalls, sp, cd>>

\* line 505
Return(t) ==
    /\ th[t].pc = "return"
    /\ th' = [th EXCEPT ![t].pc = "idle",
                        ![t].result = Lookup(AVAILABLE_COLORMAPS, th[t].name)]
    /\ UNCHANGED <<AVAILABLE_COLORMAPS, AVAILABLE_COLORMAPS_LOCK, cmapName, ncalls, sp, cd>>

Init ==
    /\ AVAILABLE_COLORMAPS = InitialColormaps
    /\ AVAILABLE_COLORMAPS_LOCK = 0
    /\ cmapName = [i \in ObjIds |-> IF i = 1 THEN Mine ELSE UnnamedName(1)]
    /\ th = [t \in Threads |-> Idle]
    /\ ncalls = 0
    /\ sp = [pc |-> "off"]
    /\ cd = [pc |-> "off"]

Next ==
    \/ \E t \in Threads, arg \in Args : Acquire(t, arg)
    \/ \E t \in Threads : Locked(t)
    \/ \E t \in Threads : Return(t)

Spec == Init /\ [][Next]_vars

-----------------------------------------------------------------------------
(* Claims about the registry.                                              *)

\* thread t has returned from a call that raised nothing
Returned(t) == th[t].pc = "idle" /\ th[t].arg.shape # "none" /\ th[t].exc = "none"

\* C1: increment_unnamed_colormap(existing) with the default base name
\* never returns a name that is already a key of the registry, in any
\* registry state ensure_colormap calls lead to (so a foreign colormap equal
\* to no registered value always gets a fresh key).
C1_NeverReturnsExisting ==
    ~HasKey(AVAILABLE_COLORMAPS,
            increment_unnamed_colormap(AVAILABLE_COLORMAPS, UnnamedBase))

\* C2: two calls that registered structurally equal vispy colormaps without
\* a name, each one's entry still being the one it stored, resolved to the
\* same name.
C2_EqualForeignSameName ==
    \A t1 \in Threads, t2 \in Threads :
        ( /\ t1 # t2
          /\ Returned(t1) /\ Returned(t2)
          /\ th[t1].arg.shape = "Vispy" /\ th[t2].arg.shape = "Vispy"
          /\ th[t1].arg.v = th[t2].arg.v
          /\ Lookup(AVAILABLE_COLORMAPS, th[t1].name)
                = convert_vispy_colormap(th[t1].arg.v, th[t1].name)
          /\ Lookup(AVAILABLE_COLORMAPS, th[t2].name)
                = convert_vispy_colormap(th[t2].arg.v, th[t2].name) )
        => th[t1].name = th[t2].name

\* C3: a call that fails leaves the registry (its keys, their order and the
\* value and name stored under every key) as it was, and the lock released.
C3_FailureChangesNothing ==
    [][ \A t \in Threads :
          (th[t].pc = "locked" /\ th'[t].exc # "none")
          => /\ AVAILABLE_COLORMAPS' = AVAILABLE_COLORMAPS
             /\ cmapName' = cmapName
             /\ AVAILABLE_COLORMAPS_LOCK' = 0 ]_vars

\* C3 witness: after a registration, a dict with a non-colormap value and an
\* empty dict have both failed.
C3_Witness ==
    /\ AVAILABLE_COLORMAPS # InitialColormaps
    /\ AVAILABLE_COLORMAPS_LOCK = 0
    /\ th[1].pc = "idle" /\ th[1].exc = "TypeError"
    /\ th[1].arg = DictArg(<<Item(Gray, CmapEl(1)), Item(Mine, DataEl(TRUE))>>)
    /\ th[2].pc = "idle" /\ th[2].exc = "ValueError"

\* C4: a call given a Colormap value c returns c itself.
C4_ReturnsOwnColormap ==
    \A t \in Threads :
        (Returned(t) /\ th[t].arg.shape = "Colormap")
        => th[t].result = ObjVal(th[t].arg.id)

\* C5: two calls that each registered a vispy colormap unequal to every
\* registered value and to each other got distinct names, and the entry of
\* each is in the registry once both have finished.
C5_DistinctAutoNames ==
    \A t1 \in Threads, t2 \in Threads :
        ( /\ t1 # t2
          /\ Returned(t1) /\ Returned(t2)
          /\ th[t1].unequal /\ th[t2].unequal
          /\ th[t1].arg.v # th[t2].arg.v )
        => /\ th[t1].name # th[t2].name
           /\ Lookup(AVAILABLE_COLORMAPS, th[t1].name)
                = convert_vispy_colormap(th[t1].arg.v, th[t1].name)

\* a dict argument that is non-empty and whose values are all colormaps
\* (and so does not take the Colormap(**colormap) branch)
IsColormapDict(arg) ==
    /\ arg.shape = "dict"
    /\ Len(arg.items) >= 1
    /\ \A k \in 1..Len(arg.items) : IsColormapEl(arg.items[k].val)

\* the table of a dict value
ElColors(x) == IF x.t = "Vispy" THEN x.v.colors ELSE ObjColors(x.id)

\* C8: for a non-empty dict of colormaps the call stores every entry under
\* its key, the stored colormap named by that key, leaves the entries of
\* other keys as they were, and returns the entry of the first key.
C8_DictRegistersAll ==
    [][ \A t \in Threads :
          /\ (th[t].pc = "locked" /\ IsColormapDict(th[t].arg))
             => /\ \A k \in 1..Len(th[t].arg.items) :
                     LET key == th[t].arg.items[k].key
                     IN  /\ HasKey(AVAILABLE_COLORMAPS', key)
                         /\ NameOf(Lookup(AVAILABLE_COLORMAPS', key), cmapName') = key
                         /\ Lookup(AVAILABLE_COLORMAPS', key).colors
                               = ElColors(th[t].arg.items[k].val)
                /\ \A j \in 1..Len(AVAILABLE_COLORMAPS) :
                     LET old == AVAILABLE_COLORMAPS[j]
                     IN  ~DictHas(th[t].arg.items, old.key)
                         => /\ AVAILABLE_COLORMAPS'[j] = old
                            /\ NameOf(old.val, cmapName') = NameOf(old.val, cmapName)
          /\ (th[t].pc = "return" /\ th'[t].pc = "idle" /\ IsColormapDict(th[t].arg))
             => /\ NameOf(th'[t].result, cmapName') = th[t].arg.items[1].key
                /\ th'[t].result.colors = ElColors(th[t].arg.items[1].val) ]_vars

\* C10: every registry key equals the name field of the Colormap stored
\* under it.
C10_KeyIsName ==
    \A k \in 1..Len(AVAILABLE_COLORMAPS) :
        NameOf(AVAILABLE_COLORMAPS[k].val, cmapName) = AVAILABLE_COLORMAPS[k].key

-----------------------------------------------------------------------------
(* The colour sampler.  Channel values and coordinates are fixed-point     *)
(* numbers in hundredths: 100 is 1.0.                                      *)

\* the largest factor the loop of _color_random is followed to
MaxFactor == 48
\* the largest n (and num_colors) a call is made with
MaxN == 3

\* 1 / phi1, 1 / phi2, 1 / phi3 of lines 224-229, in hundredths
LowDiscrepancyG == <<62, 75, 82>>

\* _low_discrepancy(3, n, seed): point i is (seed + i * g) % 1
low_discrepancy_point(i, seed) ==
    [d \in 1..3 |-> (seed + i * LowDiscrepancyG[d]) % 100]

\* colorconv.lab2rgb(random * LABRNG + LABMIN) and colorconv.luv2rgb(random *
\* LUVRNG + LUVMIN): conversions of the vendored colorconv, which send the
\* points outside a central part of the box out of the RGB gamut
lab2rgb(pt) == [d \in 1..3 |-> 2 * pt[d] - 50]
luv2rgb(pt) == [d \in 1..3 |-> 3 * pt[d] - 100]

\* lines 259-265: candidate i of the pass
raw_rgb(i, colorspace, seed) ==
    LET random == low_discrepancy_point(i, seed)
    IN  IF colorspace = "luv" THEN luv2rgb(random)
        ELSE IF colorspace = "rgb" THEN random
        ELSE lab2rgb(random)

\* np.clip(c, 0, 1)
Clip(c) == IF c < 0 THEN 0 ELSE IF c > 100 THEN 100 ELSE c

\* lines 137-139: is a colour within (0 - tolerance, 1 + tolerance) in every channel
IsValidRgb(color, tolerance) ==
    LET lo == 0 - tolerance
        hi == 100 + tolerance
    IN  \A d \in 1..3 : color[d] > lo /\ color[d] < hi

\* _validate_rgb over the candidates 0..count-1: the valid ones, in order, clipped
validate_rgb(count, colorspace, tolerance, seed) ==
    LET valid == {i \in 0..(count - 1) :
                    IsValidRgb(raw_rgb(i, colorspace, seed), tolerance)}
        nth(k) == CHOOSE i \in valid : Cardinality({j \in valid : j < i}) = k - 1
    IN  [k \in 1..Cardinality(valid) |->
            LET color == raw_rgb(nth(k), colorspace, seed)
            IN  [d \in 1..3 |-> Clip(color[d])]]

\* rgb[:n]
Take(seq, n) == SubSeq(seq, 1, IF Len(seq) < n THEN Len(seq) ELSE n)

\* the denominator the points of np.linspace(0.00001, 1 - 0.00001, num) share
linspace_den(num) == IF num <= 1 THEN 100000 ELSE 100000 * (num - 1)

\* np.linspace(0.00001, 1 - 0.00001, num): point i (from 0) as the fraction
\* <<numerator, denominator>>, start + i * (stop - start) / (num - 1)
linspace_point(i, num) ==
    IF num = 1 THEN <<1, linspace_den(num)>>
    ELSE <<(num - 1) + i * 99998, linspace_den(num)>>

\* label_control_points with one midpoint fewer: as many controls as colors
label_control_points_short(num_colors) ==
    LET den == linspace_den(num_colors - 2)
    IN  <<<<0, den>>>>
        \o [i \in 1..(num_colors - 2) |-> linspace_point(i - 1, num_colors - 2)]
        \o <<<<den, den>>>>

\* lines 292-293: [0], the midpoints, [1.0]
label_control_points(num_colors) ==
    LET den == linspace_den(num_colors - 1)
    IN  <<<<0, den>>>>
        \o [i \in 1..(num_colors - 1) |-> linspace_point(i - 1, num_colors - 1)]
        \o <<<<den, den>>>>

\* lines 295-299: an alpha of 1 on every colour, then colour 0 all zero
label_colors(rgb, num_colors) ==
    [k \in 1..num_colors |->
        IF k = 1 THEN <<0, 0, 0, 0>>
        ELSE <<rgb[k][1], rgb[k][2], rgb[k][3], 100>>]

SamplerCalls ==
    { [pc |-> "loop", caller |-> "direct", n |-> n, colorspace |-> c,
       tolerance |-> tol, seed |-> seed, factor |-> 6, rgb |-> <<>>,
       result |-> <<>>, colors |-> <<>>, controls |-> <<>>] :
        n \in 1..MaxN, c \in {"lab", "luv", "rgb"},
        tol \in {0, 15, 0 - 60}, seed \in {50, 0} }

\* label_colormap calls _color_random(num_colors, seed=seed): lab, tolerance 0
LabelCalls ==
    { [pc |-> "loop", caller |-> "label_colormap", n |-> n, colorspace |-> "lab",
       tolerance |-> 0, seed |-> seed, factor |-> 6, rgb |-> <<>>,
       result |-> <<>>, colors |-> <<>>, controls |-> <<>>] :
        n \in 1..MaxN, seed \in {50, 0} }

\* lines 258-267: one pass of the while loop
SamplePass ==
    /\ sp.pc = "loop"
    /\ Len(sp.rgb) < sp.n
    /\ sp.factor <= MaxFactor
    /\ sp' = [sp EXCEPT
                !.rgb = validate_rgb(sp.n * sp.factor, sp.colorspace,
                                     sp.tolerance, sp.seed),
                !.factor = sp.factor * 2]
    /\ UNCHANGED <<regVars, cd>>

\* line 268
SampleReturn ==
    /\ sp.pc = "loop"
    /\ Len(sp.rgb) >= sp.n
    /\ sp' = [sp EXCEPT !.pc = "returned", !.result = Take(sp.rgb, sp.n)]
    /\ UNCHANGED <<regVars, cd>>

\* lines 292-305
LabelBuild ==
    /\ sp.pc = "returned"
    /\ sp.caller = "label_colormap"
    /\ sp' = [sp EXCEPT !.pc = "built",
                        !.controls = label_control_points(sp.n),
                        !.colors = label_colors(sp.result, sp.n)]
    /\ UNCHANGED <<regVars, cd>>

SamplerInit ==
    /\ AVAILABLE_COLORMAPS = InitialColormaps
    /\ AVAILABLE_COLORMAPS_LOCK = 0
    /\ cmapName = [i \in ObjIds |-> IF i = 1 THEN Mine ELSE UnnamedName(1)]
    /\ th = [t \in Threads |-> Idle]
    /\ ncalls = 0
    /\ sp \in SamplerCalls \cup LabelCalls
    /\ cd = [pc |-> "off"]

SamplerNext == SamplePass \/ SampleReturn \/ LabelBuild

SamplerSpec == SamplerInit /\ [][SamplerNext]_vars

\* a running call keeps running
FairSamplerSpec == SamplerSpec /\ WF_vars(SamplerNext)

-----------------------------------------------------------------------------
(* Claims about label_colormap and _color_random.                          *)

\* fractions <<numerator, denominator>> with positive denominators
FracLess(a, b) ==
    IF a[2] = b[2] THEN a[1] < b[1] ELSE a[1] * b[2] < b[1] * a[2]
FracEq(a, b) == a[1] * b[2] = b[1] * a[2]

\* what C6 says of a built label colormap besides the number of controls
LabelShape ==
    /\ Len(sp.colors) = sp.n
    /\ sp.colors[1] = <<0, 0, 0, 0>>
    /\ \A k \in 2..sp.n : sp.colors[k][4] = 100
    /\ FracEq(sp.controls[1], <<0, 1>>)
    /\ FracEq(sp.controls[Len(sp.controls)], <<1, 1>>)
    /\ \A k \in 1..(Len(sp.controls) - 1) : FracLess(sp.controls[k], sp.controls[k + 1])

SamplerCapOnlyDegenerate ==
    (sp.pc = "loop" /\ sp.factor > MaxFactor /\ Len(sp.rgb) < sp.n)
    => (0 - sp.tolerance >= 100 + sp.tolerance)

\* C7: every call of _color_random ends: it returns n colours, or gives up
\* with a GamutExhausted error.
C7_SamplerTerminates ==
    <>(sp.pc \in {"returned", "built", "GamutExhausted"})

-----------------------------------------------------------------------------
(* color_dict_to_colormap(colors).  colors maps labels to RGBA colours.    *)

\* the largest label of a color dict
MaxLabel == 3

DictColors == {<<0, 0, 0, 100>>, <<100, 0, 0, 100>>, <<0, 100, 0, 100>>}

ColorDicts ==
    UNION {[labels -> DictColors] : labels \in (SUBSET (1..MaxLabel)) \ {{}}}

\* the order np.unique(..., axis=0) sorts rows in
RowLess(a, b) ==
    \E d \in 1..4 : a[d] < b[d] /\ \A e \in 1..(d - 1) : a[e] = b[e]

\* line 190: np.unique(list(colors.values()), axis=0)
unique_rows(colors) ==
    LET rows == {colors[l] : l \in DOMAIN colors}
        nth(k) == CHOOSE r \in rows : Cardinality({q \in rows : RowLess(q, r)}) = k - 1
    IN  [k \in 1..Cardinality(rows) |-> nth(k)]

\* lines 190-200; an index is the fraction <<i, len(control_colors) - 1>>
color_dict_to_colormap(colors) ==
    LET control_colors == unique_rows(colors)
        position(color) == CHOOSE i \in 1..Len(control_colors) : control_colors[i] = color
    IN  IF Len(control_colors) - 1 = 0
        THEN [exc |-> "ZeroDivisionError", control_colors |-> control_colors,
              label_color_index |-> <<>>]
        ELSE [exc |-> "none", control_colors |-> control_colors,
              label_color_index |->
                  [l \in DOMAIN colors |->
                      <<position(colors[l]) - 1, Len(control_colors) - 1>>]]

ColorDictCall ==
    /\ cd.pc = "call"
    /\ cd' = [cd EXCEPT !.pc = "done", !.out = color_dict_to_colormap(cd.colors)]
    /\ UNCHANGED <<regVars, sp>>

ColorDictInit ==
    /\ AVAILABLE_COLORMAPS = InitialColormaps
    /\ AVAILABLE_COLORMAPS_LOCK = 0
    /\ cmapName = [i \in ObjIds |-> IF i = 1 THEN Mine ELSE UnnamedName(1)]
    /\ th = [t \in Threads |-> Idle]
    /\ ncalls = 0
    /\ sp = [pc |-> "off"]
    /\ cd \in {[pc |-> "call", colors |-> c, out |-> [exc |-> "none"]] : c \in ColorDicts}

ColorDictNext == ColorDictCall

ColorDictSpec == ColorDictInit /\ [][ColorDictNext]_vars

\* C9: for every non-empty color dict the call returns, for each label, the
\* index i/(k-1) in [0,1] of its color among the k sorted distinct colors;
\* equal colors get equal indices and different colors different ones, also
\* when all labels share one color.
C9_LabelIndex ==
    cd.pc = "done"
    => /\ cd.out.exc = "none"
       /\ \A l \in DOMAIN cd.colors :
             LET idx == cd.out.label_color_index[l]
             IN  /\ 0 <= idx[1] /\ idx[1] <= idx[2]
                 /\ cd.out.control_colors[idx[1] + 1] = cd.colors[l]
                 /\ idx[2] = Len(cd.out.control_colors) - 1
       /\ \A l \in DOMAIN cd.colors, m \in DOMAIN cd.colors :
             (cd.colors[l] = cd.colors[m])
             <=> (cd.out.label_color_index[l] = cd.out.label_color_index[m])

====
